---- MODULE Spec2Model ----
(***************************************************************************)
(* Request Authorization Gateway and Session Bootstrap of the GraphXR      *)
(* database proxy admin console (frontend/src/services/projectService.ts,  *)
(* App.tsx, pages/Login.tsx, pages/Settings.tsx).                          *)
(*                                                                         *)
(* One action is one task of the browser's event loop: the synchronous     *)
(* part of a handler together with the microtasks it leaves behind (the    *)
(* axios request interceptor of a call it issues, the continuations of a   *)
(* promise it settles).  Network responses, clicks and mounts are tasks.   *)
(***************************************************************************)
EXTENDS Integers, Sequences, FiniteSets, TLC

\* ------------------------------------------------------------------ values
NULL == "null"          \* JavaScript null (also: header absent)
EMPTY == ""             \* JavaScript ''
LoginTokens == {"t1"}   \* the session tokens a login in this window is answered with
OtherTokens == {"t2"}   \* the session tokens the other windows of the browser get
Tokens == LoginTokens \cup OtherTokens
ApiKeys == {"k1"}       \* API keys the backend may report

NoPromise == 0          \* initializationPromise = null; a stored promise is 1, 2, ...

MaxCalls == 1           \* page-issued calls in flight at once
MaxInitCalls == 2       \* the count of initialize() calls saturates here

\* JavaScript truthiness of a string | null
Truthy(v) == v \notin {NULL, EMPTY}

\* ------------------------------------------------------------------ state
VARIABLES
    cachedApiKey,           \* projectService.ts: let cachedApiKey
    cachedAdminToken,       \* projectService.ts: let cachedAdminToken
    initializationPromise,  \* NoPromise, or the identity of the stored promise
    isInitialized,          \* projectService.ts: let isInitialized
    adminTokenLS,           \* localStorage['adminToken']
    loading,                \* App state
    authenticated,          \* App state
    adminAuthEnabled,       \* App state
    appPc,                  \* position of checkAuthStatus
    route,                  \* the routed page of the console
    settingsPc,             \* Settings page: unmounted / loading / ready
    settingsLoad,           \* the slot of the loadSettings the mounted page awaits, or 0
    sys,                    \* the calls of App, Login and the bootstrap, by name
    page,                   \* the calls of the pages, by slot
    bootRuns,               \* how many times the bootstrap body has started
    initCalls,              \* how many times initialize() was called (saturating)
    returned,               \* the handles initialize() has returned so far
    bootAnswer,             \* the answer the bootstrap body got from GET /api/settings
    keySource,              \* the call whose handler assigned cachedApiKey last
    wire,                   \* the requests the last task transmitted, with their headers
    origin,                 \* window.location.origin of the console
    authType,               \* ProjectForm state
    serviceAccountKey,      \* ProjectForm state: the credential and the selections
    formLoading,            \* ProjectForm state `loading`
    projectsList,           \* ProjectForm state: the project catalog
    databases,              \* ProjectForm state: the database catalog
    gAuth,                  \* localStorage g_auth_*: the entries the login popup writes
    timers,                 \* how many setInterval polls of handleGoogleLogin run
    popup,                  \* the googleAuth window is open
    listCalls,              \* the list calls in flight, with what they captured
    issued,                 \* the list calls the last task issued
    formMessage             \* the message the last task showed, or "none"

vars == <<cachedApiKey, cachedAdminToken, initializationPromise, isInitialized,
          adminTokenLS, loading, authenticated, adminAuthEnabled, appPc,
          route, settingsPc, settingsLoad, sys, page, bootRuns, initCalls,
          returned, bootAnswer, keySource, wire,
          origin, authType, serviceAccountKey, formLoading, projectsList,
          databases, gAuth, timers, popup, listCalls, issued, formMessage>>

\* the state of the console without the project form, and the form's
consoleVars == <<cachedApiKey, cachedAdminToken, initializationPromise, isInitialized,
                 adminTokenLS, loading, authenticated, adminAuthEnabled, appPc,
                 route, settingsPc, settingsLoad, sys, page, bootRuns, initCalls,
                 returned, bootAnswer, keySource, wire>>
formVars == <<origin, authType, serviceAccountKey, formLoading, projectsList,
              databases, gAuth, timers, popup, listCalls, issued, formMessage>>

gatewayVars == <<cachedApiKey, cachedAdminToken, initializationPromise,
                 isInitialized, bootRuns, initCalls, returned, bootAnswer,
                 keySource>>
appVars == <<loading, authenticated, adminAuthEnabled, appPc>>
pageVars == <<route, settingsPc, settingsLoad>>

Answer(ok, enabled, key) == [ok |-> ok, enabled |-> enabled, key |-> key]
NoAnswer == Answer(FALSE, FALSE, "none")

\* ------------------------------------------------------------------ endpoints
\* A URL is the sequence of its path segments.
Url(op) ==
    CASE op = "bootstrap"             -> <<"api", "settings">>
      [] op = "getSettings"           -> <<"api", "settings">>
      [] op = "updateSettings"        -> <<"api", "settings">>
      [] op = "generateAndSaveApiKey" -> <<"api", "settings", "generate-key">>
      [] op = "getProjects"           -> <<"api", "project", "list">>
      [] op = "adminStatus"           -> <<"api", "admin", "status">>
      [] op = "adminLogin"            -> <<"api", "admin", "login">>
      [] op = "adminLogout"           -> <<"api", "admin", "logout">>
      [] OTHER                        -> <<>>

ProjectOps == {"getProjects"}
SettingsOps == {"getSettings", "updateSettings", "generateAndSaveApiKey"}
AdminOps == {"adminStatus", "adminLogin", "adminLogout"}
SysOps == AdminOps \cup {"bootstrap"}
PageSlots == 1..MaxCalls

\* String.prototype.includes, on path segments
Includes(url, pat) ==
    \E i \in 1..(Len(url) - Len(pat) + 1) : SubSeq(url, i, i + Len(pat) - 1) = pat

\* ------------------------------------------------------------------ gateway
\* no call in the slot
Free == [op |-> "none", via |-> "none", st |-> "free"]

\* a call made through the fetch API would bypass the interceptor
NewCallByFetch(op) == [op |-> op, via |-> "fetch", st |-> "new"]
\* const api = axios.create(...): a call made on the api instance
NewCall(op) == [op |-> op, via |-> "gateway", st |-> "new"]

\* fetch(url, {headers: token ? {'X-Admin-Token': token} : {}}): no interceptor
FetchCall(op) == [op |-> op, via |-> "fetch", st |-> "sent"]
\* checkAuthStatus runs once: its call stays in the slot with the outcome it had,
\* "ok" (a 2xx answer), "notOk" (another answer) or "error" (fetch threw)
Answered(op, kind) == [op |-> op, via |-> "fetch", st |-> kind]
FetchWire(op, token) ==
    [op |-> op, via |-> "fetch", waited |-> FALSE, tokFrom |-> "caller",
     adminHdr |-> IF Truthy(token) THEN token ELSE NULL, keyHdr |-> NULL]

IsSettingsRequestPrefix(url) == Len(url) >= 1 /\ SubSeq(url, 1, 1) = <<"settings">>
IsSettingsRequestExact(url) == url = <<"api", "settings">>
IsSettingsRequest(url) == Includes(url, <<"api", "settings">>)

IsAdminRequest(url) == Includes(url, <<"api", "admin">>)

MustWait(url, promise, inited) ==
    /\ ~IsSettingsRequest(url)
    /\ ~IsAdminRequest(url)
    /\ promise # NoPromise
    /\ ~inited

AdminTokenForDurableFirst(mem, dur) == IF Truthy(dur) THEN dur ELSE mem
AdminTokenFor(mem, dur) == IF Truthy(mem) THEN mem ELSE dur

\* cachedAdminToken after the interceptor ran
CacheAfter(mem, dur) ==
    IF Truthy(AdminTokenFor(mem, dur)) /\ ~Truthy(mem)
    THEN AdminTokenFor(mem, dur) ELSE mem

ApiKeyHeader(key) == IF Truthy(key) THEN key ELSE NULL

\* the interceptor from the admin-token step on: what goes on the wire
AttachHeaders(c, mem, dur, key) ==
    [op |-> c.op, via |-> c.via, waited |-> (c.st = "suspended"),
     tokFrom |-> IF Truthy(mem) THEN "memory"
                 ELSE IF Truthy(dur) THEN "store" ELSE "none",
     adminHdr |-> IF Truthy(AdminTokenFor(mem, dur))
                  THEN AdminTokenFor(mem, dur) ELSE NULL,
     keyHdr |-> ApiKeyHeader(key)]

\* the interceptor up to its await: the call is suspended, or goes on
Gate(c, promise, inited, settled) ==
    IF c.via = "gateway" /\ MustWait(Url(c.op), promise, inited) /\ ~settled
    THEN [c EXCEPT !.st = "suspended"]
    ELSE [c EXCEPT !.st = "sent"]

\* what a call that left Gate as g puts on the wire
WireOf(g, mem, dur, key) ==
    IF g.st # "sent" THEN {}
    ELSE IF g.via = "gateway" THEN {AttachHeaders(g, mem, dur, key)}
    ELSE {FetchWire(g.op, NULL)}

\* the suspended interceptors resume when the promise they await settles
ResumeAll(cs) ==
    [s \in DOMAIN cs |-> IF cs[s].st = "suspended"
                         THEN [cs[s] EXCEPT !.st = "sent"] ELSE cs[s]]
Resumed(cs, mem, dur, key) ==
    {AttachHeaders(cs[s], mem, dur, key) : s \in {t \in DOMAIN cs : cs[t].st = "suspended"}}

HasSuspended(cs) == \E s \in DOMAIN cs : cs[s].st = "suspended"

\* the promise initialize() stored has settled
PromiseSettled ==
    /\ initializationPromise # NoPromise
    /\ sys["bootstrap"].st = "free"

\* settings.api_key_enabled && settings.api_key ? settings.api_key : null
KeyFromSettingsIgnoringEnabled(ok, enabled, key) ==
    IF ok /\ Truthy(key) THEN key ELSE NULL
KeyFromSettings(ok, enabled, key) ==
    IF ok /\ enabled /\ Truthy(key) THEN key ELSE NULL

\* finally { isInitialized = true }
InitializedAfterTryOnly(ok) == ok
InitializedAfter(ok) == TRUE

\* Settings page: setCachedApiKey(enabled ? (data.api_key || '') : null)
KeyFromSettingsPage(enabled, key) ==
    IF enabled THEN (IF Truthy(key) THEN key ELSE EMPTY) ELSE NULL

\* setAdminToken(token): what it leaves in localStorage
StoreAfterSetAdminToken(token) == IF Truthy(token) THEN token ELSE NULL

Saturate(n) == IF n < MaxInitCalls THEN n + 1 ELSE n

\* initializeApiKey(), called at the end of a handler that leaves the system
\* calls at cs and the admin token cache and store at mem and dur.
InitializeApiKeyNoMemo(cs, mem, dur) ==
    LET c == Gate(NewCall("bootstrap"), bootRuns + 1, isInitialized, FALSE) IN
    /\ initializationPromise' = bootRuns + 1
    /\ bootRuns' = bootRuns + 1
    /\ sys' = [cs EXCEPT !["bootstrap"] = c]
    /\ wire' = WireOf(c, mem, dur, cachedApiKey)
    /\ cachedAdminToken' = IF c.st = "sent" THEN CacheAfter(mem, dur) ELSE mem
    /\ initCalls' = Saturate(initCalls)
    /\ returned' = returned \cup {bootRuns + 1}
InitializeApiKey(cs, mem, dur) ==
    IF initializationPromise # NoPromise
    THEN /\ sys' = cs
         /\ wire' = {}
         /\ cachedAdminToken' = mem
         /\ initCalls' = Saturate(initCalls)
         /\ returned' = returned \cup {initializationPromise}
         /\ UNCHANGED <<initializationPromise, bootRuns>>
    ELSE LET c == Gate(NewCall("bootstrap"), bootRuns + 1, isInitialized, FALSE) IN
         /\ initializationPromise' = bootRuns + 1
         /\ bootRuns' = bootRuns + 1
         /\ sys' = [cs EXCEPT !["bootstrap"] = c]
         /\ wire' = WireOf(c, mem, dur, cachedApiKey)
         /\ cachedAdminToken' = IF c.st = "sent" THEN CacheAfter(mem, dur) ELSE mem
         /\ initCalls' = Saturate(initCalls)
         /\ returned' = returned \cup {bootRuns + 1}

\* ------------------------------------------------------------------ App
LoginVisible == ~loading /\ adminAuthEnabled /\ ~authenticated
ConsoleVisible == ~loading /\ ~(adminAuthEnabled /\ ~authenticated)

\* ------------------------------------------------------------------ ProjectForm values
MaxTimers == 2          \* polls of handleGoogleLogin running at once
MaxListCalls == 1       \* list calls in flight at once
MaxRaceCalls == 2       \* list calls in flight at once, where calls race
UNDEFINED == "undefined"        \* a property the object does not have
Fields ==
    {"token", "refresh_token", "expires_in", "last_refreshed", "state", "email",
     "type", "private_key", "private_key_id", "client_email",
     "project_id", "instance_id", "database_id", "graph_name"}
\* useState<any>({})
EmptyKey == [f \in Fields |-> UNDEFINED]
\* the five localStorage entries of the popup
GAuthEntries == {"token", "state", "email", "refresh_token", "expires_in"}
NoEntries == [e \in GAuthEntries |-> NULL]
\* useState([]) of projectsList and databases
NoCatalog == <<>>
NotLoading == [listProjects |-> FALSE, listDatabases |-> FALSE]
\* listCalls has one slot for each call the network lets be in flight; a free slot
NoCall == [kind |-> "none", key |-> EmptyKey, auth |-> "none"]
NoCalls(n) == [i \in 1..n |-> NoCall]
Origins == {"http://localhost:9080", "http://localhost:3000", "https://proxy.example.com"}
\* const DefaultAuthType = origin === "http://localhost:9080" ? "oauth2" : "service_account"
DefaultAuthType(o) == IF o = "http://localhost:9080" THEN "oauth2" ELSE "service_account"

\* the form of the console that is not open: the state its useState calls give it
FormIdleWith(n) ==
    /\ origin = "http://localhost:9080"
    /\ authType = DefaultAuthType(origin)
    /\ serviceAccountKey = EmptyKey
    /\ formLoading = NotLoading
    /\ projectsList = NoCatalog
    /\ databases = NoCatalog
    /\ gAuth = NoEntries
    /\ timers = 0
    /\ popup = FALSE
    /\ listCalls = NoCalls(n)
    /\ issued = {}
    /\ formMessage = "none"
FormIdle == FormIdleWith(MaxListCalls)

Init ==
    /\ FormIdle
    /\ cachedApiKey = NULL
    /\ adminTokenLS \in {NULL} \cup Tokens
    /\ cachedAdminToken = adminTokenLS
    /\ initializationPromise = NoPromise
    /\ isInitialized = FALSE
    /\ loading = TRUE
    /\ authenticated = FALSE
    /\ adminAuthEnabled = FALSE
    /\ appPc = "mount"
    /\ route \in {"projects", "settings"}
    /\ settingsPc = "unmounted"
    /\ settingsLoad = 0
    /\ sys = [o \in SysOps |-> Free]
    /\ page = [s \in PageSlots |-> Free]
    /\ bootRuns = 0
    /\ initCalls = 0
    /\ returned = {}
    /\ bootAnswer = NoAnswer
    /\ keySource = "none"
    /\ wire = {}

\* useEffect(() => { checkAuthStatus() }, []) up to the await of the status fetch
Mount ==
    /\ appPc = "mount"
    /\ loading' = TRUE
    /\ cachedAdminToken' = IF Truthy(adminTokenLS) THEN adminTokenLS ELSE cachedAdminToken
    /\ adminTokenLS' = IF Truthy(adminTokenLS)
                       THEN StoreAfterSetAdminToken(adminTokenLS) ELSE adminTokenLS
    /\ sys' = [sys EXCEPT !["adminStatus"] = FetchCall("adminStatus")]
    /\ wire' = {FetchWire("adminStatus", adminTokenLS)}
    /\ appPc' = "status"
    /\ UNCHANGED <<cachedApiKey, initializationPromise, isInitialized, authenticated,
                   adminAuthEnabled, pageVars, page, bootRuns, initCalls, returned,
                   bootAnswer, keySource>>
    /\ UNCHANGED formVars

\* what follows `await initializeApiKey()` in checkAuthStatus: finally setLoading(false)
AwaitInitInCheckAuthStatus ==
    IF PromiseSettled
    THEN loading' = FALSE /\ appPc' = "done"
    ELSE loading' = loading /\ appPc' = "awaitInit"

BootstrapAfterStatusAlways(auth) == TRUE
\* if (status.authenticated) await initializeApiKey()
BootstrapAfterStatus(auth) == auth

AuthenticatedOnErrorFailClosed == FALSE
\* catch: setAuthenticated(true), "assume auth is not required"
AuthenticatedOnError == TRUE

\* checkAuthStatus from the answer of GET /api/admin/status on
StatusResponse(kind, enabled, auth) ==
    /\ appPc = "status"
    /\ sys["adminStatus"].st = "sent"
    /\ CASE kind = "ok" /\ BootstrapAfterStatus(auth) ->
              /\ adminAuthEnabled' = enabled
              /\ authenticated' = auth
              /\ InitializeApiKey([sys EXCEPT !["adminStatus"] = Answered("adminStatus", kind)],
                                  cachedAdminToken, adminTokenLS)
              /\ AwaitInitInCheckAuthStatus
              /\ UNCHANGED adminTokenLS
         [] kind = "ok" /\ ~BootstrapAfterStatus(auth) ->
              /\ adminAuthEnabled' = enabled
              /\ authenticated' = auth
              /\ loading' = FALSE
              /\ appPc' = "done"
              /\ sys' = [sys EXCEPT !["adminStatus"] = Answered("adminStatus", kind)]
              /\ wire' = {}
              /\ UNCHANGED <<adminTokenLS, cachedAdminToken, initializationPromise,
                             bootRuns, initCalls, returned>>
         [] kind = "notOk" ->
              /\ adminTokenLS' = StoreAfterSetAdminToken(NULL)
              /\ cachedAdminToken' = NULL
              /\ authenticated' = FALSE
              /\ loading' = FALSE
              /\ appPc' = "done"
              /\ sys' = [sys EXCEPT !["adminStatus"] = Answered("adminStatus", kind)]
              /\ wire' = {}
              /\ UNCHANGED <<adminAuthEnabled, initializationPromise, bootRuns,
                             initCalls, returned>>
         [] kind = "error" ->
              /\ authenticated' = AuthenticatedOnError
              /\ adminAuthEnabled' = FALSE
              /\ InitializeApiKey([sys EXCEPT !["adminStatus"] = Answered("adminStatus", kind)],
                                  cachedAdminToken, adminTokenLS)
              /\ AwaitInitInCheckAuthStatus
              /\ UNCHANGED adminTokenLS
    /\ UNCHANGED <<cachedApiKey, isInitialized, bootAnswer, keySource, pageVars, page>>
    /\ UNCHANGED formVars

\* Login.handleSubmit up to the await of the login fetch
LoginSubmit ==
    /\ LoginVisible
    /\ sys["adminLogin"].st = "free"
    /\ sys' = [sys EXCEPT !["adminLogin"] = FetchCall("adminLogin")]
    /\ wire' = {FetchWire("adminLogin", NULL)}
    /\ UNCHANGED <<gatewayVars, appVars, adminTokenLS, pageVars, page>>
    /\ UNCHANGED formVars

\* Login.handleSubmit from the answer on, and App.handleLoginSuccess.
\* token: a token (success with token), EMPTY (success, auth disabled), NULL (failure)
LoginResponse(token) ==
    /\ sys["adminLogin"].st = "sent"
    /\ IF token = NULL
       THEN /\ sys' = [sys EXCEPT !["adminLogin"] = Free]
            /\ wire' = {}
            /\ UNCHANGED <<gatewayVars, adminTokenLS, authenticated>>
       ELSE /\ authenticated' = TRUE
            /\ adminTokenLS' = IF Truthy(token)
                               THEN StoreAfterSetAdminToken(token) ELSE adminTokenLS
            /\ InitializeApiKey([sys EXCEPT !["adminLogin"] = Free],
                                IF Truthy(token) THEN token ELSE cachedAdminToken,
                                IF Truthy(token) THEN token ELSE adminTokenLS)
            /\ UNCHANGED <<cachedApiKey, isInitialized, bootAnswer, keySource>>
    /\ UNCHANGED <<loading, adminAuthEnabled, appPc, pageVars, page>>
    /\ UNCHANGED formVars

\* App.handleLogout up to the await of the logout fetch
Logout ==
    /\ ConsoleVisible
    /\ adminAuthEnabled
    /\ sys["adminLogout"].st = "free"
    /\ sys' = [sys EXCEPT !["adminLogout"] = FetchCall("adminLogout")]
    /\ wire' = {FetchWire("adminLogout", adminTokenLS)}
    /\ UNCHANGED <<gatewayVars, appVars, adminTokenLS, pageVars, page>>
    /\ UNCHANGED formVars

ApiKeyClearedAtLogout(key) == NULL
\* handleLogout leaves cachedApiKey as it is
ApiKeyAfterLogout(key) == key

CachedTokenKeptAtLogout(mem) == mem
\* setAdminToken(null): cachedAdminToken = token
CachedTokenAfterLogout(mem) == NULL

\* App.handleLogout after the fetch returned or threw; the console unmounts
LogoutResponse(ok) ==
    /\ sys["adminLogout"].st = "sent"
    /\ adminTokenLS' = StoreAfterSetAdminToken(NULL)
    /\ cachedAdminToken' = CachedTokenAfterLogout(cachedAdminToken)
    /\ cachedApiKey' = ApiKeyAfterLogout(cachedApiKey)
    /\ authenticated' = FALSE
    /\ settingsPc' = IF adminAuthEnabled THEN "unmounted" ELSE settingsPc
    /\ settingsLoad' = IF adminAuthEnabled THEN 0 ELSE settingsLoad
    /\ sys' = [sys EXCEPT !["adminLogout"] = Free]
    /\ wire' = {}
    /\ UNCHANGED <<initializationPromise, isInitialized, bootRuns, initCalls, returned,
                   bootAnswer, keySource,
                   loading, adminAuthEnabled, appPc, route, page>>
    /\ UNCHANGED formVars

\* ------------------------------------------------------------------ pages
\* a link of the console header changes the route; the page left unmounts
Navigate(r) ==
    /\ ConsoleVisible
    /\ route # r
    /\ route' = r
    /\ settingsPc' = "unmounted"
    /\ settingsLoad' = 0
    /\ wire' = {}
    /\ UNCHANGED <<gatewayVars, appVars, adminTokenLS, sys, page>>
    /\ UNCHANGED formVars

FreeSlot(s) ==
    /\ page[s].st = "free"
    /\ \A t \in PageSlots : t < s => page[t].st # "free"

\* projectService.<op>() called by a page: the call enters the interceptor
ApiCall(s, op) ==
    LET c == Gate(NewCall(op), initializationPromise, isInitialized, PromiseSettled) IN
    /\ FreeSlot(s)
    /\ page' = [page EXCEPT ![s] = c]
    /\ wire' = WireOf(c, cachedAdminToken, adminTokenLS, cachedApiKey)
    /\ cachedAdminToken' = IF c.st = "sent" /\ c.via = "gateway"
                           THEN CacheAfter(cachedAdminToken, adminTokenLS)
                           ELSE cachedAdminToken
    /\ UNCHANGED <<cachedApiKey, initializationPromise, isInitialized, bootRuns,
                   initCalls, returned, bootAnswer, keySource>>

\* ProjectManagement / ApiUrlsModal: a call of the project pages
ApiRequest(s, op) ==
    /\ ConsoleVisible
    /\ route = "projects"
    /\ ApiCall(s, op)
    /\ UNCHANGED <<appVars, adminTokenLS, pageVars, sys>>
    /\ UNCHANGED formVars

\* the answer (or the timeout) of a call of the project pages
ApiResponse(s) ==
    /\ page[s].op \in ProjectOps
    /\ page[s].st = "sent"
    /\ page' = [page EXCEPT ![s] = Free]
    /\ wire' = {}
    /\ UNCHANGED <<gatewayVars, appVars, adminTokenLS, pageVars, sys>>
    /\ UNCHANGED formVars

\* Settings.loadSettings up to its await: at mount, and on "Discard Changes"
LoadSettings(s) ==
    /\ ConsoleVisible
    /\ route = "settings"
    /\ settingsPc \in {"unmounted", "ready"}
    /\ ApiCall(s, "getSettings")
    /\ settingsPc' = "loading"
    /\ settingsLoad' = s
    /\ UNCHANGED <<appVars, adminTokenLS, route, sys>>
    /\ UNCHANGED formVars

\* Settings.handleSave / handleGenerateKey up to the await
SettingsSave(s, op) ==
    /\ ConsoleVisible
    /\ route = "settings"
    /\ settingsPc = "ready"
    /\ ApiCall(s, op)
    /\ UNCHANGED <<appVars, adminTokenLS, pageVars, sys>>
    /\ UNCHANGED formVars

\* loadSettings / handleSave / handleGenerateKey from the answer on
SettingsResponse(s, ok, enabled, key) ==
    /\ page[s].op \in SettingsOps
    /\ page[s].st = "sent"
    /\ page' = [page EXCEPT ![s] = Free]
    /\ wire' = {}
    /\ cachedApiKey' = IF ok THEN KeyFromSettingsPage(enabled, key) ELSE cachedApiKey
    /\ keySource' = IF ok THEN page[s].op ELSE keySource
    /\ settingsPc' = IF settingsLoad = s THEN "ready" ELSE settingsPc
    /\ settingsLoad' = IF settingsLoad = s THEN 0 ELSE settingsLoad
    /\ UNCHANGED <<cachedAdminToken, initializationPromise, isInitialized, bootRuns,
                   initCalls, returned, bootAnswer, appVars, adminTokenLS, route, sys>>
    /\ UNCHANGED formVars

\* the body of initializeApiKey from the answer of its GET /api/settings on,
\* then everything that awaited the promise
BootstrapResponse(ok, enabled, key) ==
    /\ sys["bootstrap"].st = "sent"
    /\ cachedApiKey' = KeyFromSettings(ok, enabled, key)
    /\ isInitialized' = (isInitialized \/ InitializedAfter(ok))
    /\ bootAnswer' = Answer(ok, enabled, key)
    /\ keySource' = "bootstrap"
    /\ sys' = [sys EXCEPT !["bootstrap"] = Free]
    /\ page' = ResumeAll(page)
    /\ wire' = Resumed(page, cachedAdminToken, adminTokenLS,
                       KeyFromSettings(ok, enabled, key))
    /\ cachedAdminToken' = IF HasSuspended(page)
                           THEN CacheAfter(cachedAdminToken, adminTokenLS)
                           ELSE cachedAdminToken
    /\ IF appPc = "awaitInit"
       THEN loading' = FALSE /\ appPc' = "done"
       ELSE UNCHANGED <<loading, appPc>>
    /\ UNCHANGED <<initializationPromise, bootRuns, initCalls, returned, adminTokenLS,
                   authenticated, adminAuthEnabled, pageVars>>
    /\ UNCHANGED formVars

\* ------------------------------------------------------------------ other windows
\* localStorage is shared with the other windows of the console: a login there
OtherWindowLogin(t) ==
    /\ adminTokenLS # t
    /\ adminTokenLS' = t
    /\ wire' = {}
    /\ UNCHANGED <<gatewayVars, appVars, pageVars, sys, page>>
    /\ UNCHANGED formVars

\* a logout in another window
OtherWindowLogout ==
    /\ adminTokenLS # NULL
    /\ adminTokenLS' = NULL
    /\ wire' = {}
    /\ UNCHANGED <<gatewayVars, appVars, pageVars, sys, page>>
    /\ UNCHANGED formVars

\* ------------------------------------------------------------------ specification
\* the answers of the settings endpoints: a failure, or {api_key_enabled, api_key}
\* with the key enabled (api_key null, '' or a key) or disabled (a key is kept)
SettingsAnswers ==
    {<<FALSE, FALSE, NULL>>}
    \cup {<<TRUE, TRUE, k>> : k \in {NULL, EMPTY} \cup ApiKeys}
    \cup {<<TRUE, FALSE, k>> : k \in ApiKeys}

Next ==
    \/ Mount
    \/ \E kind \in {"ok", "notOk", "error"}, enabled, auth \in BOOLEAN :
          /\ kind # "ok" => ~enabled /\ ~auth
          /\ StatusResponse(kind, enabled, auth)
    \/ LoginSubmit
    \/ \E token \in LoginTokens \cup {EMPTY, NULL} : LoginResponse(token)
    \/ Logout
    \/ \E ok \in BOOLEAN : LogoutResponse(ok)
    \/ \E r \in {"projects", "settings"} : Navigate(r)
    \/ \E s \in PageSlots, op \in ProjectOps : ApiRequest(s, op)
    \/ \E s \in PageSlots : ApiResponse(s)
    \/ \E s \in PageSlots : LoadSettings(s)
    \/ \E s \in PageSlots, op \in {"updateSettings", "generateAndSaveApiKey"} :
          SettingsSave(s, op)
    \/ \E s \in PageSlots, a \in SettingsAnswers : SettingsResponse(s, a[1], a[2], a[3])
    \/ \E a \in SettingsAnswers : BootstrapResponse(a[1], a[2], a[3])
    \/ \E t \in OtherTokens : OtherWindowLogin(t)
    \/ OtherWindowLogout

Spec == Init /\ [][Next]_vars

\* the bootstrap's GET /api/settings is answered or times out (axios timeout)
LiveSpec ==
    /\ Spec
    /\ WF_vars(\E a \in SettingsAnswers : BootstrapResponse(a[1], a[2], a[3]))

\* ------------------------------------------------------------------ ProjectForm

\* JavaScript truthiness of a property that may be missing
IsSet(v) == Truthy(v) /\ v # UNDEFINED

\* {...prev, ...newData}
Merge(prev, newData) ==
    [f \in Fields |-> IF newData[f] # UNDEFINED THEN newData[f] ELSE prev[f]]
\* updateServiceAccountKey(newData): setServiceAccountKey(prev => ({...prev, ...newData}))
UpdateServiceAccountKey(prev, newData) == Merge(prev, newData)

\* the dependency lists of the two trigger effects
ProjectDeps(k, a) == <<k["token"], a, k["type"], k["private_key_id"]>>
DatabaseDeps(k) == <<k["project_id"], k["instance_id"]>>

IsNewOauth2(k, a) == IsSet(k["token"]) /\ a = "oauth2"
IsNewServiceAccount(k) == k["type"] = "service_account" /\ IsSet(k["private_key_id"])
IsADC(a) == a = "google_ADC"
ProjectListTrigger(k, a) == IsNewOauth2(k, a) \/ IsNewServiceAccount(k) \/ IsADC(a)
DatabaseListTriggerProjectOnly(k) == IsSet(k["project_id"])
DatabaseListTrigger(k) == IsSet(k["project_id"]) /\ IsSet(k["instance_id"])

\* projectService.listGoogleProjects / listGoogleDatabases (serviceAccountKey, authType)
\* with the state of the render that called it
ListCall(kind, k, a) == [kind |-> kind, key |-> k, auth |-> a]

\* the effects that run after a render changed the state from (k0, a0) to (k1, a1)
EffectCalls(k0, a0, k1, a1) ==
    (IF ProjectDeps(k0, a0) # ProjectDeps(k1, a1) /\ ProjectListTrigger(k1, a1)
     THEN <<ListCall("listProjects", k1, a1)>> ELSE <<>>)
    \o (IF DatabaseDeps(k0) # DatabaseDeps(k1) /\ DatabaseListTrigger(k1)
        THEN <<ListCall("listDatabases", k1, a1)>> ELSE <<>>)

\* setLoading(...) at the start of getProjectsList / getDatabaseList: the last one stays
LoadingAfter(ld, calls) ==
    IF calls = <<>> THEN ld
    ELSE IF calls[Len(calls)].kind = "listDatabases"
         THEN [listProjects |-> FALSE, listDatabases |-> TRUE]
         ELSE [listProjects |-> TRUE, listDatabases |-> FALSE]

\* the calls in flight, oldest first, and the slots with these calls in them
IsCall(c) == c # NoCall
Calls(cs) == SelectSeq(cs, IsCall)
Pad(q, n) == q \o NoCalls(n - Len(q))

\* a handler left the state at (k1, a1), the loading flags at ld and the calls in
\* flight at cs: the component renders and its effects run
Render(k1, a1, ld, cs) ==
    LET new == EffectCalls(serviceAccountKey, authType, k1, a1) IN
    /\ Len(Calls(cs)) + Len(new) <= Len(cs)
    /\ serviceAccountKey' = k1
    /\ authType' = a1
    /\ formLoading' = LoadingAfter(ld, new)
    /\ listCalls' = Pad(Calls(cs) \o new, Len(cs))
    /\ issued' = {new[i] : i \in 1..Len(new)}

\* the options of the three selects
SeqElems(q) == {q[i] : i \in 1..Len(q)}
ProjectOptions == SeqElems(projectsList)
\* projectsList.find(p => p.id === project_id)?.instances: project p1 has an instance
InstanceOptions(k) == IF k["project_id"] \in ProjectOptions /\ k["project_id"] = "p1"
                      THEN {"i1"} ELSE {}
DatabaseOptions == SeqElems(databases)
\* databases.find(db => db.id === database_id)?.graphDBs: database d1 has a graph
GraphOptions(k) == IF k["database_id"] \in DatabaseOptions /\ k["database_id"] = "d1"
                   THEN {"g1"} ELSE {}

SelectedProjectKeepingChildren(k, p) == [k EXCEPT !["project_id"] = p]
\* {...serviceAccountKey, project_id: value, instance_id: null, database_id: null, graph_name: null}
SelectedProject(k, p) ==
    [k EXCEPT !["project_id"] = p, !["instance_id"] = NULL,
              !["database_id"] = NULL, !["graph_name"] = NULL]
\* {...serviceAccountKey, instance_id: value, database_id: null, graph_name: null}
SelectedInstance(k, i) ==
    [k EXCEPT !["instance_id"] = i, !["database_id"] = NULL, !["graph_name"] = NULL]
\* {...serviceAccountKey, database_id: value, graph_name: null}
SelectedDatabase(k, d) == [k EXCEPT !["database_id"] = d, !["graph_name"] = NULL]
\* {...serviceAccountKey, graph_name: value}
SelectedGraph(k, g) == [k EXCEPT !["graph_name"] = g]

\* a handler that changes neither the catalogs nor the popup bridge
FormFrame == UNCHANGED <<consoleVars, origin, projectsList, databases, gAuth, timers, popup>>

\* the project Select (not shown for service_account)
SelectProject(p) ==
    /\ authType # "service_account"
    /\ p \in ProjectOptions
    /\ Render(UpdateServiceAccountKey(serviceAccountKey, SelectedProject(serviceAccountKey, p)),
              authType, formLoading, listCalls)
    /\ formMessage' = "none"
    /\ FormFrame

\* the instance Select, or the Input shown for ADC without instances
SelectInstance(i) ==
    /\ \/ i \in InstanceOptions(serviceAccountKey)
       \/ IsADC(authType) /\ InstanceOptions(serviceAccountKey) = {}
    /\ Render(UpdateServiceAccountKey(serviceAccountKey, SelectedInstance(serviceAccountKey, i)),
              authType, formLoading, listCalls)
    /\ formMessage' = "none"
    /\ FormFrame

\* the database Select, or the Input shown for ADC without databases
SelectDatabase(d) ==
    /\ \/ d \in DatabaseOptions
       \/ IsADC(authType) /\ DatabaseOptions = {} /\ ~formLoading.listDatabases
    /\ Render(UpdateServiceAccountKey(serviceAccountKey, SelectedDatabase(serviceAccountKey, d)),
              authType, formLoading, listCalls)
    /\ formMessage' = "none"
    /\ FormFrame

\* the graph Select, or the Input shown for ADC without graphs
SelectGraph(g) ==
    /\ \/ g \in GraphOptions(serviceAccountKey)
       \/ IsADC(authType) /\ GraphOptions(serviceAccountKey) = {} /\ ~formLoading.listDatabases
    /\ Render(UpdateServiceAccountKey(serviceAccountKey, SelectedGraph(serviceAccountKey, g)),
              authType, formLoading, listCalls)
    /\ formMessage' = "none"
    /\ FormFrame

\* handleAuthTypeChange: setAuthType(value); updateServiceAccountKey({})
HandleAuthTypeChange(a) ==
    /\ a # authType
    /\ Render(UpdateServiceAccountKey(serviceAccountKey, EmptyKey), a, formLoading, listCalls)
    /\ formMessage' = "none"
    /\ FormFrame

\* the JSON files an operator may pick
ValidFile ==
    [EmptyKey EXCEPT !["type"] = "service_account", !["private_key"] = "pk",
                     !["private_key_id"] = "pkid", !["client_email"] = "sa@p1",
                     !["project_id"] = "p1"]
KeyFiles ==
    {ValidFile,
     [ValidFile EXCEPT !["private_key_id"] = UNDEFINED],
     [ValidFile EXCEPT !["type"] = "authorized_user"]}
\* jsonContent.type === "service_account" && jsonContent.private_key && jsonContent.client_email
UploadAccepts(parses, file) ==
    /\ parses
    /\ file["type"] = "service_account"
    /\ IsSet(file["private_key"])
    /\ IsSet(file["client_email"])

\* handleServiceAccountUpload, from reader.onload on
HandleServiceAccountUpload(parses, file) ==
    /\ authType = "service_account"
    /\ IF UploadAccepts(parses, file)
       THEN /\ Render(UpdateServiceAccountKey(serviceAccountKey, file),
                      authType, formLoading, listCalls)
            /\ formMessage' = "uploaded"
       ELSE /\ Render(serviceAccountKey, authType, formLoading, listCalls)
            /\ formMessage' = IF parses THEN "invalidKeyFile" ELSE "parseFailed"
    /\ FormFrame

\* handleRemoveServiceAccount: updateServiceAccountKey({})
HandleRemoveServiceAccount ==
    /\ authType = "service_account"
    /\ Render(UpdateServiceAccountKey(serviceAccountKey, EmptyKey),
              authType, formLoading, listCalls)
    /\ formMessage' = "keyRemoved"
    /\ FormFrame

\* the modal closes (open becomes false): cleanupForm. The calls in flight stay in
\* flight; opening the modal again changes nothing
CloseForm ==
    /\ Render(EmptyKey, DefaultAuthType(origin), NotLoading, listCalls)
    /\ projectsList' = NoCatalog
    /\ databases' = NoCatalog
    /\ formMessage' = "none"
    /\ UNCHANGED <<consoleVars, origin, gAuth, timers, popup>>

\* ------------------------------------------------------------------ popup bridge
Hostname(o) ==
    CASE o = "http://localhost:9080" -> "localhost"
      [] o = "http://localhost:3000" -> "localhost"
      [] OTHER -> "proxy.example.com"
IsLocalHostAlways(o) == TRUE
\* window.location.hostname !== "localhost" refuses
IsLocalHost(o) == Hostname(o) = "localhost"

\* what the popup's callback page writes under each entry
EntryValue(e) ==
    CASE e = "token" -> "ya29" [] e = "state" -> "nonce" [] e = "email" -> "op@example.com"
      [] e = "refresh_token" -> "1//r" [] OTHER -> "3599"

CheckGoogleLoginDataWriteTokenOnly(ls) == Truthy(ls["token"])
\* checkGoogleLoginDataWrite: token && email && state
CheckGoogleLoginDataWrite(ls) ==
    Truthy(ls["token"]) /\ Truthy(ls["email"]) /\ Truthy(ls["state"])

\* the object handleGoogleLoginData builds from the entries it read
LoginData(ls) ==
    [EmptyKey EXCEPT !["token"] = ls["token"], !["refresh_token"] = ls["refresh_token"],
                     !["expires_in"] = ls["expires_in"], !["last_refreshed"] = "now",
                     !["state"] = ls["state"], !["email"] = ls["email"]]
KeyAfterLoginMerged(prev, data) == Merge(prev, data)
\* setServiceAccountKey({token, ...}): the object replaces the state
KeyAfterLogin(prev, data) == data

\* handleGoogleLogin
HandleGoogleLogin ==
    /\ authType = "oauth2"
    /\ IF IsLocalHost(origin)
       THEN /\ timers < MaxTimers
            /\ popup' = TRUE
            /\ timers' = timers + 1
            /\ formMessage' = "none"
       ELSE /\ formMessage' = "oauthLocalhostOnly"
            /\ UNCHANGED <<popup, timers>>
    /\ Render(serviceAccountKey, authType, formLoading, listCalls)
    /\ UNCHANGED <<consoleVars, origin, projectsList, databases, gAuth>>

\* what one run of the callback page may leave behind: the whole result, the token
\* without the account, the account without the token
PopupWrites ==
    {GAuthEntries, {"token", "refresh_token", "expires_in"}, {"state", "email"}}
\* the callback page in the popup writes entries
PopupWrite(es) ==
    /\ popup
    /\ \E e \in es : gAuth[e] # EntryValue(e)
    /\ gAuth' = [e \in GAuthEntries |-> IF e \in es THEN EntryValue(e) ELSE gAuth[e]]
    /\ issued' = {}
    /\ formMessage' = "none"
    /\ UNCHANGED <<consoleVars, origin, authType, serviceAccountKey, formLoading,
                   projectsList, databases, timers, popup, listCalls>>

\* the operator closes the popup
PopupClosed ==
    /\ popup
    /\ popup' = FALSE
    /\ issued' = {}
    /\ formMessage' = "none"
    /\ UNCHANGED <<consoleVars, origin, authType, serviceAccountKey, formLoading,
                   projectsList, databases, gAuth, timers, listCalls>>

\* one firing of a setInterval callback, handleGoogleLoginData included
Tick ==
    /\ timers > 0
    /\ IF CheckGoogleLoginDataWrite(gAuth)
       THEN /\ timers' = timers - 1
            /\ popup' = FALSE
            /\ gAuth' = NoEntries
            /\ Render(IF Truthy(gAuth["token"]) /\ Truthy(gAuth["email"]) /\ Truthy(gAuth["state"])
                      THEN KeyAfterLogin(serviceAccountKey, LoginData(gAuth))
                      ELSE serviceAccountKey,
                      authType, formLoading, listCalls)
       ELSE /\ UNCHANGED <<timers, popup, gAuth>>
            /\ Render(serviceAccountKey, authType, formLoading, listCalls)
    /\ formMessage' = "none"
    /\ UNCHANGED <<consoleVars, origin, projectsList, databases>>

\* ------------------------------------------------------------------ list calls
Remove(q, i) == SubSeq(q, 1, i - 1) \o SubSeq(q, i + 1, Len(q)) \o <<NoCall>>
\* what the backend may answer to list_projects and list_databases
ProjectAnswers == {<<>>, <<"p1", "p2">>}
DatabaseAnswers == {<<>>, <<"d1">>}

\* getProjectsList from the answer on: try
ProjectsListed(i, ids) ==
    /\ i \in 1..Len(listCalls)
    /\ listCalls[i].kind = "listProjects"
    /\ projectsList' = ids
    /\ Render(UpdateServiceAccountKey(serviceAccountKey,
                  [listCalls[i].key EXCEPT
                      !["project_id"] = IF Len(ids) > 0 THEN ids[1] ELSE EMPTY]),
              authType, NotLoading, Remove(listCalls, i))
    /\ formMessage' = "none"
    /\ UNCHANGED <<consoleVars, origin, databases, gAuth, timers, popup>>

\* a write that takes the answer only while the call's selection is still the current one
DatabasesAfterAnswerGuarded(c, k, old, ids) ==
    IF DatabaseDeps(c.key) = DatabaseDeps(k) THEN ids ELSE old
\* setDatabases(databases || []): whatever the selection is by now
DatabasesAfterAnswer(c, k, old, ids) == ids

\* getDatabaseList from the answer on: try
DatabasesListed(i, ids) ==
    /\ i \in 1..Len(listCalls)
    /\ listCalls[i].kind = "listDatabases"
    /\ databases' = DatabasesAfterAnswer(listCalls[i], serviceAccountKey, databases, ids)
    /\ Render(serviceAccountKey, authType, NotLoading, Remove(listCalls, i))
    /\ formMessage' = "none"
    /\ UNCHANGED <<consoleVars, origin, projectsList, gAuth, timers, popup>>

ProjectsAfterFailureCleared(cat) == NoCatalog
\* catch: only a message
ProjectsAfterFailure(cat) == cat

\* the message of the catch block
FailureMessage(c, status) ==
    IF c.kind = "listProjects" /\ IsADC(c.auth) THEN "adcNotConfigured"
    ELSE IF status = 401 THEN "loginFirst"
    ELSE IF c.kind = "listProjects" THEN "fetchProjectsFailed"
    ELSE "fetchDatabasesFailed"

\* getProjectsList / getDatabaseList when the call fails: catch and finally
ListFailed(i, status) ==
    /\ i \in 1..Len(listCalls)
    /\ IsCall(listCalls[i])
    /\ projectsList' = ProjectsAfterFailure(projectsList)
    /\ Render(serviceAccountKey, authType, NotLoading, Remove(listCalls, i))
    /\ formMessage' = FailureMessage(listCalls[i], status)
    /\ UNCHANGED <<consoleVars, origin, databases, gAuth, timers, popup>>

\* ------------------------------------------------------------------ form specification
\* the console behind the form: signed in, bootstrap done, nothing in flight
ConsoleIdle ==
    /\ cachedApiKey = NULL
    /\ adminTokenLS = NULL
    /\ cachedAdminToken = NULL
    /\ initializationPromise = 1
    /\ isInitialized = TRUE
    /\ loading = FALSE
    /\ authenticated = TRUE
    /\ adminAuthEnabled = FALSE
    /\ appPc = "done"
    /\ route = "projects"
    /\ settingsPc = "unmounted"
    /\ settingsLoad = 0
    /\ sys = [[o \in SysOps |-> Free] EXCEPT !["adminStatus"] = Answered("adminStatus", "ok")]
    /\ page = [s \in PageSlots |-> Free]
    /\ bootRuns = 1
    /\ initCalls = 1
    /\ returned = {1}
    /\ bootAnswer = Answer(TRUE, FALSE, "k1")
    /\ keySource = "bootstrap"
    /\ wire = {}

\* the callback page has written all of its entries
LoginWritten == [e \in GAuthEntries |-> EntryValue(e)]

\* the create form, opened on any of the hosts
BridgeInit ==
    /\ ConsoleIdle
    /\ origin \in Origins
    /\ authType = DefaultAuthType(origin)
    /\ serviceAccountKey = EmptyKey
    /\ formLoading = NotLoading
    /\ projectsList = NoCatalog
    /\ databases = NoCatalog
    /\ gAuth = NoEntries
    /\ timers = 0
    /\ popup = FALSE
    /\ listCalls = NoCalls(MaxListCalls)
    /\ issued = {}
    /\ formMessage = "none"

\* the operator signs in with Google: the popup, its entries and the polls
BridgeNext ==
    \/ \E a \in {"oauth2", "service_account", "google_ADC"} : HandleAuthTypeChange(a)
    \/ \E g \in {"g1"} : SelectGraph(g)
    \/ HandleGoogleLogin
    \/ \E es \in PopupWrites : PopupWrite(es)
    \/ PopupClosed
    \/ Tick
    \/ \E i \in DOMAIN listCalls, ids \in ProjectAnswers : ProjectsListed(i, ids)
    \/ \E i \in DOMAIN listCalls, status \in {401, 500} : ListFailed(i, status)

BridgeSpec == BridgeInit /\ [][BridgeNext]_vars

\* the create form, opened on the developer host; a Google login may be about to
\* arrive (the popup has written its entries and one poll is running)
FormInit ==
    /\ ConsoleIdle
    /\ origin = "http://localhost:9080"
    /\ authType = DefaultAuthType(origin)
    /\ serviceAccountKey = EmptyKey
    /\ formLoading = NotLoading
    /\ projectsList = NoCatalog
    /\ databases = NoCatalog
    /\ \/ gAuth = NoEntries /\ timers = 0 /\ popup = FALSE
       \/ gAuth = LoginWritten /\ timers = 1 /\ popup = TRUE
    /\ listCalls = NoCalls(MaxListCalls)
    /\ issued = {}
    /\ formMessage = "none"

\* the operator chooses a credential and the lists load
FormNext ==
    \/ \E p \in {"p1", "p2"} : SelectProject(p)
    \/ \E i \in {"i1"} : SelectInstance(i)
    \/ \E a \in {"oauth2", "service_account", "google_ADC"} : HandleAuthTypeChange(a)
    \/ \E parses \in BOOLEAN, file \in KeyFiles : HandleServiceAccountUpload(parses, file)
    \/ HandleRemoveServiceAccount
    \/ Tick
    \/ \E i \in DOMAIN listCalls, ids \in ProjectAnswers : ProjectsListed(i, ids)
    \/ \E i \in DOMAIN listCalls, ids \in DatabaseAnswers : DatabasesListed(i, ids)
    \/ \E i \in DOMAIN listCalls, status \in {401, 500} : ListFailed(i, status)

FormSpec == FormInit /\ [][FormNext]_vars

\* the create form, opened on the developer host
SelectionInit == ConsoleIdle /\ FormIdle

\* the operator picks an auth type, then a project, an instance, a database and a graph
SelectionNext ==
    \/ \E a \in {"oauth2", "service_account", "google_ADC"} : HandleAuthTypeChange(a)
    \/ \E p \in {"p1", "p2"} : SelectProject(p)
    \/ \E i \in {"i1"} : SelectInstance(i)
    \/ \E d \in {"d1"} : SelectDatabase(d)
    \/ \E g \in {"g1"} : SelectGraph(g)
    \/ \E i \in DOMAIN listCalls, ids \in ProjectAnswers : ProjectsListed(i, ids)
    \/ \E i \in DOMAIN listCalls, ids \in DatabaseAnswers : DatabasesListed(i, ids)
    \/ \E i \in DOMAIN listCalls, status \in {401, 500} : ListFailed(i, status)

SelectionSpec == SelectionInit /\ [][SelectionNext]_vars

\* localStorage outlives the page: the entries of a callback page that finished after
\* the page that opened it was reloaded or closed, when no poll was left to take them
EarlierLogin ==
    [e \in GAuthEntries |-> IF e = "token" THEN "ya29.old" ELSE EntryValue(e)]

\* the create form, opened on any of the hosts, with or without such entries
StaleInit ==
    /\ ConsoleIdle
    /\ origin \in Origins
    /\ authType = DefaultAuthType(origin)
    /\ serviceAccountKey = EmptyKey
    /\ formLoading = NotLoading
    /\ projectsList = NoCatalog
    /\ databases = NoCatalog
    /\ gAuth \in {NoEntries, EarlierLogin}
    /\ timers = 0
    /\ popup = FALSE
    /\ listCalls = NoCalls(MaxListCalls)
    /\ issued = {}
    /\ formMessage = "none"

StaleSpec == StaleInit /\ [][BridgeNext]_vars

\* ------------------------------------------------------------------ racing list calls
\* a backend that answers by what it is asked: the credentials see projects p1 and p2,
\* and instance i1 of project p1 holds database d1
ProjectsOf(c) == <<"p1", "p2">>
DatabasesOf(c) == IF c.key["project_id"] = "p1" /\ c.key["instance_id"] = "i1"
                 THEN <<"d1">> ELSE <<>>

\* the create form, opened on the developer host, with room for racing calls
RaceInit == ConsoleIdle /\ FormIdleWith(MaxRaceCalls)

\* the operator changes the credential and the selection and closes the form while
\* calls are in flight; every call is answered
RaceNext ==
    \/ \E a \in {"oauth2", "service_account", "google_ADC"} : HandleAuthTypeChange(a)
    \/ HandleServiceAccountUpload(TRUE, ValidFile)
    \/ CloseForm
    \/ \E p \in {"p1", "p2"} : SelectProject(p)
    \/ \E i \in {"i1"} : SelectInstance(i)
    \/ \E i \in DOMAIN listCalls : ProjectsListed(i, ProjectsOf(listCalls[i]))
    \/ \E i \in DOMAIN listCalls : DatabasesListed(i, DatabasesOf(listCalls[i]))

RaceSpec == RaceInit /\ [][RaceNext]_vars

\* ------------------------------------------------------------------ properties
\* every call in flight: the raw fetches and bootstrap, and the calls of the pages
Slots == {sys[o] : o \in SysOps} \cup {page[s] : s \in PageSlots}
AllOps == SysOps \cup ProjectOps \cup SettingsOps
\* the interceptor's classification of a call: it is one that may have to wait
Gated(op) == ~IsSettingsRequest(Url(op)) /\ ~IsAdminRequest(Url(op))
\* the barrier as the interceptor sees it
BarrierPending == initializationPromise # NoPromise /\ ~isInitialized
ExpectedHeader(v) == IF Truthy(v) THEN v ELSE NULL

\* C1: a gated request (URL with neither /api/settings nor /api/admin) is never
\* transmitted before the barrier is resolved; it is held until bootstrap completes.
\* Counterexample: the console can be shown without initializeApiKey() ever
\* having been called, and the interceptor then lets the request through.
C1_GatedSentOnlyAfterResolved ==
    \A w \in wire : (w.via = "gateway" /\ Gated(w.op)) => isInitialized

\* C2: a request to an exempt endpoint (settings read, admin login/status/logout)
\* never waits on the barrier, whether the barrier is not started, pending or resolved.
C2_ExemptOps == {"bootstrap", "getSettings"} \cup AdminOps
C2_ExemptNeverWaits ==
    /\ \A c \in Slots : c.op \in C2_ExemptOps => c.st # "suspended"
    /\ \A w \in wire : w.op \in C2_ExemptOps => ~w.waited
    /\ \A op \in C2_ExemptOps, p \in {NoPromise, 1}, i \in BOOLEAN :
          ~MustWait(Url(op), p, i)
C2_Witness ==
    /\ BarrierPending
    /\ \E w \in wire : w.op = "getSettings" /\ w.via = "gateway" /\ ~w.waited

\* C3: the barrier goes from pending to resolved at most once and never leaves
\* resolved: once isInitialized, it stays so and the promise stays the same one,
\* also when the bootstrap read failed.
C3_BarrierOneShot ==
    [][/\ isInitialized => (isInitialized' /\ initializationPromise' = initializationPromise)
       /\ initializationPromise # NoPromise => initializationPromise' = initializationPromise
       /\ isInitialized' => initializationPromise' # NoPromise]_vars
C3_Witness ==
    /\ isInitialized
    /\ bootAnswer = Answer(FALSE, FALSE, NULL)
    /\ initCalls >= 2

\* C4: bootstrap's own settings read never waits on the barrier, so once bootstrap
\* has started the barrier is eventually resolved and every request suspended on
\* it has been dispatched.
C4_NoBarrierDeadlock ==
    /\ [](sys["bootstrap"].st # "suspended")
    /\ (initializationPromise # NoPromise) ~> (isInitialized /\ ~HasSuspended(page))
    /\ [][\A s \in PageSlots :
            (page[s].st = "suspended" /\ page'[s] # page[s])
               => \E w \in wire' : w.op = page[s].op /\ w.waited]_vars
C4_Witness ==
    /\ isInitialized
    /\ \E w \in wire : w.waited /\ Gated(w.op)

\* C5: initialize() is idempotent: however often it is called, before, during or
\* after the bootstrap, the bootstrap body runs once and every call returns the
\* same promise.
C5_InitializeIdempotent ==
    /\ bootRuns <= 1
    /\ Cardinality(returned) <= 1
    /\ initCalls >= 1 => (bootRuns = 1 /\ returned = {initializationPromise})
    /\ initCalls = 0 => (bootRuns = 0 /\ initializationPromise = NoPromise)
C5_Witness ==
    /\ initCalls = MaxInitCalls
    /\ bootRuns = 1
    /\ isInitialized

\* C6: when bootstrap completes, cachedApiKey is the api_key of the settings if
\* the read succeeded with api_key_enabled and a non-empty api_key, null
\* otherwise; a gated request dispatched after it carries X-API-Key exactly when
\* cachedApiKey is non-null, with that value.
C6_KeyAfterBootstrap ==
    [][/\ bootAnswer' # bootAnswer =>
            cachedApiKey' = IF bootAnswer'.ok /\ bootAnswer'.enabled
                               /\ bootAnswer'.key \in ApiKeys
                            THEN bootAnswer'.key ELSE NULL
       /\ \A w \in wire' :
            (w.via = "gateway" /\ Gated(w.op) /\ isInitialized')
               => w.keyHdr = ExpectedHeader(cachedApiKey')]_vars
C6_Witness ==
    /\ bootAnswer = Answer(TRUE, TRUE, "k1")
    /\ \E w \in wire : w.waited /\ Gated(w.op) /\ w.keyHdr = "k1"

\* C7 as stated: every outbound call of the console passes through the gateway's
\* interception point before it is transmitted.
C7_AllCallsThroughGateway ==
    \A w \in wire : w.via = "gateway"
\* C7 as the code has it: the calls made through projectService pass through the
\* interceptor; the admin status, login and logout calls are sent by fetch and
\* do not: they never wait and never carry X-API-Key.
C7_ServiceCallsThroughGateway ==
    /\ \A w \in wire :
          /\ (w.via = "gateway") <=> (w.op \notin AdminOps)
          /\ w.via = "fetch" => (w.keyHdr = NULL /\ ~w.waited)
    /\ \A c \in Slots : c.st # "free" => ((c.via = "gateway") <=> (c.op \notin AdminOps))
C7_Witness ==
    /\ \E w \in wire : w.op = "adminLogout" /\ w.via = "fetch" /\ w.adminHdr # NULL
    /\ \E s \in PageSlots : page[s].via = "gateway" /\ page[s].st = "sent"
    /\ Truthy(cachedApiKey)

\* C8 as stated: of the settings endpoints only the read is exempt; the write
\* and the key generation are held while the barrier is pending.
C8_SpecExemptOps == {"bootstrap", "getSettings"} \cup AdminOps
C8_CodeExemptOps == {"bootstrap"} \cup SettingsOps \cup AdminOps
C9_LoginHandled == sys["adminLogin"].st = "sent" /\ sys'["adminLogin"].st = "free"
C9_AdminTokenAttached ==
    [][\A w \in wire' : w.via = "gateway" =>
         /\ w.adminHdr # NULL => cachedAdminToken' = w.adminHdr
         /\ w.adminHdr = NULL => (~Truthy(cachedAdminToken') /\ ~Truthy(adminTokenLS'))
         /\ ~C9_LoginHandled =>
              /\ w.adminHdr = IF Truthy(cachedAdminToken) THEN cachedAdminToken
                              ELSE ExpectedHeader(adminTokenLS)
              /\ adminTokenLS' = adminTokenLS
         /\ w.tokFrom = "store" => (w.adminHdr = adminTokenLS' /\ Truthy(adminTokenLS'))]_vars
C9_Witness ==
    \E w \in wire :
        /\ w.via = "gateway"
        /\ w.tokFrom = "store"
        /\ w.adminHdr \in Tokens
        /\ cachedAdminToken = w.adminHdr

\* C10 as stated: cachedApiKey is assigned only by bootstrap and by a settings
\* save or key generation; nothing else changes it.
C10_Handled(ops) ==
    \/ "bootstrap" \in ops /\ sys["bootstrap"].st = "sent" /\ sys'["bootstrap"].st = "free"
    \/ \E s \in PageSlots :
          page[s].op \in ops /\ page[s].st = "sent" /\ page'[s].st = "free"
C11_StatusThrew == sys["adminStatus"].st = "error"
C11_FailOpenRunsBootstrap ==
    /\ [](C11_StatusThrew =>
            /\ authenticated /\ ~adminAuthEnabled
            /\ initializationPromise # NoPromise /\ bootRuns = 1 /\ initCalls >= 1
            /\ loading <=> ~isInitialized)
    /\ C11_StatusThrew ~> (isInitialized /\ ConsoleVisible)
C11_Witness ==
    /\ C11_StatusThrew
    /\ isInitialized
    /\ ConsoleVisible
    /\ bootAnswer = Answer(FALSE, FALSE, NULL)

\* C12 as stated: when the status call succeeds and reports not authenticated
\* with admin auth enabled, the durable admin token is cleared.
C12_LoginRequired ==
    /\ sys["adminStatus"].st = "ok"
    /\ adminAuthEnabled
    /\ initializationPromise = NoPromise
C12_HandlesStatus == sys["adminStatus"].st = "sent" /\ sys'["adminStatus"].st # "sent"
C12_TokenClearedWhenLoginRequired ==
    [][(C12_HandlesStatus /\ adminAuthEnabled' /\ ~authenticated')
          => (adminTokenLS' = NULL /\ LoginVisible' /\ initializationPromise' = NoPromise)]_vars
\* C12 as the code has it: in that outcome the stored token is left as it is (it
\* is cleared only on a non-2xx answer); the login page is shown, no call of the
\* console is made, and initialize() is first called when a login succeeds.
C12_HandlesLogin == sys["adminLogin"].st = "sent" /\ sys'["adminLogin"].st = "free"
C12_LoginBeforeBootstrap ==
    [][/\ C12_LoginRequired =>
            /\ LoginVisible /\ ~authenticated
            /\ \A s \in PageSlots : page[s].st = "free"
            /\ bootRuns = 0 /\ initCalls = 0
            /\ initializationPromise' # NoPromise => (C12_HandlesLogin /\ authenticated')
       /\ (C12_HandlesStatus /\ adminAuthEnabled' /\ ~authenticated') =>
            /\ adminTokenLS' = adminTokenLS
            /\ cachedAdminToken' = cachedAdminToken
            /\ initializationPromise' = NoPromise
            /\ wire' = {}]_vars
C12_Witness ==
    /\ C12_LoginRequired
    /\ cachedAdminToken \in LoginTokens
    /\ adminTokenLS = cachedAdminToken
    /\ sys["adminLogin"].st = "free"

\* ------------------------------------------------------------------ ProjectForm properties
\* C13: the credential store gets a token only in a poll tick that finds token, email
\* and state together in the shared store; a tick that misses one of the three
\* changes neither the credential store nor any of the five entries
C13_AllThree == gAuth["token"] # NULL /\ gAuth["email"] # NULL /\ gAuth["state"] # NULL
C13_CommitOnlyFullTriple ==
    [][/\ (serviceAccountKey'["token"] # serviceAccountKey["token"]) => (Tick /\ C13_AllThree)
       /\ (Tick /\ ~C13_AllThree) => UNCHANGED <<serviceAccountKey, gAuth>>]_vars
\* a poll is running while the token is in the shared store without the email
C13_Witness ==
    /\ timers > 0
    /\ gAuth["token"] # NULL
    /\ gAuth["email"] = NULL
    /\ serviceAccountKey["token"] = UNDEFINED

\* C14 (as the code has it): the tick that finds token, email and state stops its
\* poll, deletes the five entries and REPLACES the credential store by the six
\* fields of the login; the entries being gone, no later tick commits them again
C14_Observed == gAuth["token"] # NULL /\ gAuth["email"] # NULL /\ gAuth["state"] # NULL
C14_Credential ==
    [f \in Fields |-> IF f \in GAuthEntries THEN gAuth[f]
                      ELSE IF f = "last_refreshed" THEN "now" ELSE UNDEFINED]
C14_CommitOnceReplacing ==
    [][(Tick /\ C14_Observed) =>
          /\ timers' = timers - 1
          /\ gAuth' = NoEntries
          /\ ~(ENABLED (Tick /\ serviceAccountKey' # serviceAccountKey))'
          /\ serviceAccountKey' = C14_Credential]_vars
\* C14 (as stated): the tick merges the login into the credential store
C14_CommitMerges ==
    [][(Tick /\ C14_Observed) =>
          /\ timers' = timers - 1
          /\ gAuth' = NoEntries
          /\ serviceAccountKey' = [f \in Fields |->
                 IF C14_Credential[f] # UNDEFINED THEN C14_Credential[f]
                 ELSE serviceAccountKey[f]]]_vars
\* a login was committed while a second poll is still running
C14_Witness ==
    /\ serviceAccountKey["token"] \notin {UNDEFINED, NULL}
    /\ serviceAccountKey["graph_name"] = UNDEFINED
    /\ gAuth = NoEntries
    /\ ~popup
    /\ timers = 1

\* C15: on a host other than localhost handleGoogleLogin only raises its error: no
\* popup, no poll, and the credential store and the shared store stay as they were
C15_NonLocal == origin = "https://proxy.example.com"
C15_RemoteLoginRefused ==
    [][(HandleGoogleLogin /\ C15_NonLocal) =>
          /\ formMessage' = "oauthLocalhostOnly"
          /\ UNCHANGED <<popup, timers, serviceAccountKey, gAuth, listCalls>>]_vars
C15_Witness ==
    /\ C15_NonLocal
    /\ authType = "oauth2"
    /\ formMessage = "oauthLocalhostOnly"
    /\ ~popup
    /\ timers = 0

\* C16: the project handler writes project_id and nulls instance_id, database_id and
\* graph_name; the instance handler nulls database_id and graph_name; the database
\* handler nulls graph_name; each in the single update of its step, so that after a
\* selection step no descendant of the field written is still set
C16_Key(f) == serviceAccountKey[f]
C16_SelectionsCascade ==
    [][/\ \A p \in {"p1", "p2"} : SelectProject(p) =>
              /\ C16_Key("project_id")' = p
              /\ C16_Key("instance_id")' = NULL
              /\ C16_Key("database_id")' = NULL
              /\ C16_Key("graph_name")' = NULL
       /\ SelectInstance("i1") =>
              /\ C16_Key("instance_id")' = "i1"
              /\ C16_Key("database_id")' = NULL
              /\ C16_Key("graph_name")' = NULL
              /\ C16_Key("project_id")' = C16_Key("project_id")
       /\ SelectDatabase("d1") =>
              /\ C16_Key("database_id")' = "d1"
              /\ C16_Key("graph_name")' = NULL
              /\ C16_Key("project_id")' = C16_Key("project_id")
              /\ C16_Key("instance_id")' = C16_Key("instance_id")
       /\ SelectGraph("g1") =>
              /\ C16_Key("graph_name")' = "g1"
              /\ C16_Key("project_id")' = C16_Key("project_id")
              /\ C16_Key("instance_id")' = C16_Key("instance_id")
              /\ C16_Key("database_id")' = C16_Key("database_id")]_vars
\* another project was picked after a database list had been loaded for an instance
C16_Witness ==
    /\ C16_Key("project_id") = "p2"
    /\ C16_Key("instance_id") = NULL
    /\ C16_Key("database_id") = NULL
    /\ C16_Key("graph_name") = NULL
    /\ databases # NoCatalog

\* C17 (as stated): the step that switches the auth type from service_account to
\* oauth2 leaves none of type, private_key, private_key_id, client_email in the
\* credential store, so that the effects of that render see no key material
C17_KeyMaterial == {"type", "private_key", "private_key_id", "client_email"}
C17_SwitchClearsKeyMaterial ==
    [][(authType = "service_account" /\ HandleAuthTypeChange("oauth2")) =>
          \A f \in C17_KeyMaterial : serviceAccountKey'[f] \in {UNDEFINED, NULL, EMPTY}]_vars

\* C18 (as stated): every list-projects call is issued with a credential its auth
\* type can use: a token under oauth2, a private_key_id under service_account,
\* anything under ADC
C18_Usable(c) ==
    CASE c.auth = "oauth2" -> c.key["token"] \notin {UNDEFINED, NULL, EMPTY}
      [] c.auth = "service_account" -> c.key["private_key_id"] \notin {UNDEFINED, NULL, EMPTY}
      [] OTHER -> TRUE
C18_ListProjectsOnlyWhenUsable ==
    \A c \in issued : c.kind = "listProjects" => C18_Usable(c)

\* C19: a list-databases call is issued only by a render whose credential store has
\* project_id and instance_id set, and the step that selects a project issues none
C19_Set(f) == serviceAccountKey[f] \notin {UNDEFINED, NULL, EMPTY}
C19_ListDatabasesNeedsBoth ==
    [][/\ \A c \in issued' : c.kind = "listDatabases" =>
              /\ C19_Set("project_id")' /\ C19_Set("instance_id")'
              /\ c.key = serviceAccountKey'
       /\ (\E p \in {"p1", "p2"} : SelectProject(p)) =>
              \A c \in issued' : c.kind # "listDatabases"]_vars
\* a list-databases call has just been issued
C19_Witness ==
    /\ \E c \in issued : c.kind = "listDatabases"
    /\ formLoading.listDatabases

\* C20: the step that handles a failed list call changes neither catalog nor the
\* credential store, and leaves the loading flag of the failed call cleared
C20_ListFailureTouchesNothing ==
    [][\A i \in DOMAIN listCalls : (\E status \in {401, 500} : ListFailed(i, status)) =>
          /\ UNCHANGED <<projectsList, databases, serviceAccountKey>>
          /\ ~formLoading'[listCalls[i].kind]
          /\ formMessage' \in {"adcNotConfigured", "loginFirst",
                                "fetchProjectsFailed", "fetchDatabasesFailed"}]_vars
\* a list call has failed while a project catalog was loaded
C20_Witness ==
    /\ formMessage \in {"loginFirst", "fetchProjectsFailed", "fetchDatabasesFailed"}
    /\ projectsList # NoCatalog
    /\ Calls(listCalls) = <<>>
    /\ formLoading = NotLoading

\* C21 (as stated): a step that changes the identity of the credential (its token,
\* its uploaded key, the auth type) leaves both catalogs empty, and the database
\* catalog is non-empty only while a project and an instance are selected
C21_Identity == <<authType, serviceAccountKey["token"], serviceAccountKey["private_key_id"]>>
C21_CatalogFollowsCredential ==
    [][/\ C21_Identity' # C21_Identity =>
              (projectsList' = NoCatalog /\ databases' = NoCatalog)
       /\ databases' # NoCatalog =>
              /\ serviceAccountKey'["project_id"] \notin {UNDEFINED, NULL, EMPTY}
              /\ serviceAccountKey'["instance_id"] \notin {UNDEFINED, NULL, EMPTY}]_vars

\* C22 (as stated): an upload changes the credential store only if the file parses
\* and has type service_account, private_key, client_email, project_id and
\* private_key_id
C22_Required == {"private_key", "client_email", "project_id", "private_key_id"}
C22_Complete(file) ==
    /\ file["type"] = "service_account"
    /\ \A f \in C22_Required : file[f] \notin {UNDEFINED, NULL, EMPTY}
C22_UploadNeedsAllFields ==
    [][\A parses \in BOOLEAN, file \in KeyFiles :
          (HandleServiceAccountUpload(parses, file) /\ ~(parses /\ C22_Complete(file))) =>
              UNCHANGED serviceAccountKey]_vars

\* C23 (as stated): a list-projects answer replaces the project catalog, and writes
\* project_id only if the answer is non-empty and no project is selected: a selected
\* project_id stays
C23_Selected == serviceAccountKey["project_id"] \notin {UNDEFINED, NULL, EMPTY}
C23_AutoSelectOnlyWhenNoneSelected ==
    [][\A i \in DOMAIN listCalls, ids \in ProjectAnswers : ProjectsListed(i, ids) =>
          /\ projectsList' = ids
          /\ IF C23_Selected
             THEN serviceAccountKey'["project_id"] = serviceAccountKey["project_id"]
             ELSE IF ids # <<>>
                  THEN serviceAccountKey'["project_id"] = ids[1]
                  ELSE serviceAccountKey'["project_id"] \in {UNDEFINED, NULL, EMPTY}]_vars

\* C25 (as stated): whenever the console is shown, initialize() has been called
C25_InitializeBeforeConsole ==
    ConsoleVisible => (initCalls >= 1 /\ initializationPromise # NoPromise)

\* C26: the step that completes a logout, whether the call succeeded or threw, leaves
\* no admin token in localStorage or in memory; and while neither holds a token, no
\* step other than a login that stores one (in this window or another) brings a
\* token back or puts a request with X-Admin-Token on the wire
C26_NoToken == adminTokenLS = NULL /\ cachedAdminToken = NULL
C26_LoginStored ==
    \/ \E t \in LoginTokens : LoginResponse(t)
    \/ \E t \in OtherTokens : OtherWindowLogin(t)
C26_LogoutClearsTokens ==
    [][/\ (\E ok \in BOOLEAN : LogoutResponse(ok)) => C26_NoToken'
       /\ (C26_NoToken /\ ~C26_LoginStored) =>
              (C26_NoToken' /\ \A w \in wire' : w.adminHdr = NULL)]_vars
\* logged out, and a call that was waiting for the bootstrap has just gone out
C26_Witness ==
    /\ LoginVisible
    /\ C26_NoToken
    /\ initializationPromise # NoPromise
    /\ sys["adminLogout"].st = "free"
    /\ \E w \in wire : w.via = "gateway" /\ w.adminHdr = NULL

\* C30 (as stated): after the remove action the credential store holds none of type,
\* private_key, private_key_id, client_email, and the project-list trigger does not
\* take the credential for a service-account key
C30_KeyMaterial == {"type", "private_key", "private_key_id", "client_email"}
C30_RemoveClearsKey ==
    [][HandleRemoveServiceAccount =>
          /\ \A f \in C30_KeyMaterial : serviceAccountKey'[f] \in {UNDEFINED, NULL, EMPTY}
          /\ ~(/\ serviceAccountKey'["type"] = "service_account"
               /\ serviceAccountKey'["private_key_id"] \notin {UNDEFINED, NULL, EMPTY})]_vars
\* C24: list calls are neither cancelled nor guarded: the answer of every
\* list-databases call in flight becomes the database catalog, also when the project
\* or instance it was asked for is no longer the selected one; so the catalog of an
\* older selection can replace the one the newer call wrote.
C24_Stale(c) == DatabaseDeps(c.key) # DatabaseDeps(serviceAccountKey)
C24_LateAnswerOverwrites ==
    [][\A i \in DOMAIN listCalls :
          (DatabasesListed(i, DatabasesOf(listCalls[i])) /\ C24_Stale(listCalls[i]))
              => databases' = DatabasesOf(listCalls[i])]_vars
\* every call has been answered, the selection is (p2, i1), whose call was answered
\* with no database, and the catalog is the one of (p1, i1): its answer came last
C24_Witness ==
    /\ Calls(listCalls) = <<>>
    /\ serviceAccountKey["project_id"] = "p2"
    /\ serviceAccountKey["instance_id"] = "i1"
    /\ databases = <<"d1">>

\* C29 (as stated): the loading flags track the calls in flight: loading.listProjects
\* is true whenever a list-projects call is in flight and loading.listDatabases is true
\* whenever a list-databases call is in flight, also when calls of both kinds overlap.
\* Counterexample: each call sets the other kind's flag to false when it starts and
\* both flags to false when it ends.
C29_LoadingTracksCalls ==
    \A i \in DOMAIN listCalls :
        /\ listCalls[i].kind = "listProjects" => formLoading.listProjects
        /\ listCalls[i].kind = "listDatabases" => formLoading.listDatabases

\* C27 (as stated): after the form was closed and reset, the answer of a list call
\* issued before the reset writes no field of the earlier credential back into the
\* store: but for the project the answer selects, the store stays as the reset left it.
\* Counterexample: getProjectsList writes the key of the render that issued the call.
C27_IssuedBeforeReset(c) == serviceAccountKey = EmptyKey /\ c.key # EmptyKey
C27_ResetIsNotUndone ==
    [][\A i \in DOMAIN listCalls :
          (ProjectsListed(i, ProjectsOf(listCalls[i])) /\ C27_IssuedBeforeReset(listCalls[i]))
              => \A f \in Fields \ {"project_id"} : serviceAccountKey'[f] = UNDEFINED]_vars

\* C28 (as stated): a credential the popup bridge commits comes from entries written
\* after the handleGoogleLogin call that started the poll: a complete triple that was
\* in localStorage before is never committed as the result of the new login.
\* Counterexample: handleGoogleLogin starts the poll without clearing the entries, and
\* the first firing of the poll commits what it finds.
C28_CommitIsOfThisLogin == serviceAccountKey["token"] # EarlierLogin["token"]

====
